---- MODULE Spec2Model ----
(***************************************************************************)
(* Model of ignis.services.niri.service.NiriService: a client that opens   *)
(* one Unix socket to the compositor, starts a background thread reading   *)
(* events from it and, on the constructing thread, sends two bootstrap     *)
(* requests whose replies it reads from the same socket.                   *)
(*                                                                         *)
(* One socket.recv(4096) is taken to return one complete message, or b""   *)
(* once the peer has closed and nothing is left to read.  A workspace or   *)
(* window record {"id": n} is modelled by n and the empty record {} by     *)
(* EmptyDict; a list of workspaces is a sequence of such numbers.          *)
(***************************************************************************)
EXTENDS Integers, Sequences, FiniteSets, TLC

\* number of unsolicited frames the peer may emit during one run
MaxEvents == 2

\* the value of {} (service.py:44-45)
EmptyDict == 0

\* the two requests of the constructor, in the order it sends them
Requests == <<"get_workspaces", "get_active_window">>

Fields == {"workspaces", "active_workspace", "active_window"}

-----------------------------------------------------------------------------
(* Frames: what one recv returns.  enc says how far decoding gets:         *)
(*   "eof"     b"" (the peer closed)                                       *)
(*   "badutf8" bytes that are not UTF-8                                    *)
(*   "badjson" text that is not JSON                                       *)
(*   "number"  JSON that is a number, not an object                        *)
(*   "obj"     a JSON object with the keys in `keys`                       *)
(* src is history: the request the peer was answering, or "event".         *)

Frame(enc, keys, event, ws, w, aws, awin, src) ==
    [enc |-> enc, keys |-> keys, event |-> event, workspaces |-> ws,
     workspace |-> w, active_workspace |-> aws, active_window |-> awin,
     src |-> src]

Raw(enc, src) == Frame(enc, {}, "", <<>>, EmptyDict, EmptyDict, EmptyDict, src)

NoFrame == Raw("none", "none")

EofFrame == Raw("eof", "close")

ReplyWorkspaces(ws) ==
    Frame("obj", {"workspaces"}, "", ws, EmptyDict, EmptyDict, EmptyDict,
          "get_workspaces")

ReplyActiveWindow(win) ==
    Frame("obj", {"active_window"}, "", <<>>, EmptyDict, EmptyDict, win,
          "get_active_window")

EventWorkspacesChanged(ws) ==
    Frame("obj", {"event", "workspaces"}, "workspaces_changed", ws,
          EmptyDict, EmptyDict, EmptyDict, "event")

EventWorkspaceActivated(w) ==
    Frame("obj", {"event", "workspace"}, "workspace_activated", <<>>,
          w, EmptyDict, EmptyDict, "event")

EventOther(kind, keys) ==
    Frame("obj", keys, kind, <<>>, EmptyDict, EmptyDict, EmptyDict, "event")

\* an event of a kind the client has no branch for, whose payload goes by
\* the name of a reply key
EventWindowFocused(win) ==
    Frame("obj", {"event", "active_window"}, "window_focused", <<>>,
          EmptyDict, EmptyDict, win, "event")

\* the values the peer may answer with
ReplyWsValues == {<<1, 2>>, <<3>>}

ReplyWinValues == {EmptyDict, 5}

\* the unsolicited frames the peer may emit
PeerEvents ==
    { EventWorkspacesChanged(<<2, 1>>),
      EventWorkspaceActivated(3),
      EventOther("workspaces_changed", {"event"}),
      EventOther("window_opened", {"event"}),
      Raw("badjson", "event"),
      Raw("badutf8", "event"),
      Raw("number", "event") }

\* number of frames the peer of WideSpec may send during one run
MaxFrames == 2

ReplyKeySets == SUBSET Fields

\* a reply object with the keys ks, carrying the values of generation g
ReplyWith(ks, g) ==
    Frame("obj", ks, "",
          IF "workspaces" \in ks THEN <<g, g + 1>> ELSE <<>>,
          EmptyDict,
          IF "active_workspace" \in ks THEN g + 2 ELSE EmptyDict,
          IF "active_window" \in ks THEN g + 3 ELSE EmptyDict,
          "reply")

\* the frames the peer of WideSpec may send: replies with every set of
\* reply keys, and objects neither handler has a branch for
WideFrames ==
    {ReplyWith(ks, g) : ks \in ReplyKeySets, g \in {10, 20}}
    \cup { EventOther("window_opened", {"event"}),
           EventWindowFocused(7) }

-----------------------------------------------------------------------------
VARIABLES
    pathExists,        \* os.path.exists(NIRI_SOCKET_DIR)
    mainPc,            \* where the constructing thread is
    qi,                \* index in Requests of the query in progress
    mdata,             \* the frame the query read, not yet handled
    mainExc,           \* the exception that left __init__, or "none"
    lpc,               \* where the listener thread is
    ldata,             \* the frame the listener read, not yet handled
    connected,         \* self.socket is connected
    inbound,           \* frames written by the peer, not yet read
    peerClosed,        \* the peer closed the connection
    sent,              \* requests written to the socket
    answered,          \* how many of them the peer has answered
    evSent,            \* how many unsolicited frames the peer emitted
    workspaces,        \* self._workspaces
    active_workspace,  \* self._active_workspace
    active_window,     \* self._active_window
    notified,          \* the property notifications emitted, in order
    latest,            \* history: per field, the last value the peer sent
    applied            \* history: the frames handled, in handling order

vars == <<pathExists, mainPc, qi, mdata, mainExc, lpc, ldata, connected,
          inbound, peerClosed, sent, answered, evSent, workspaces,
          active_workspace, active_window, notified, latest, applied>>

cacheVars == <<workspaces, active_workspace, active_window>>

mainVars == <<mainPc, qi, mdata, mainExc>>

peerVars == <<inbound, peerClosed, answered, evSent, latest>>

Cache ==
    [workspaces |-> workspaces, active_workspace |-> active_workspace,
     active_window |-> active_window]

EmptyCache ==
    [workspaces |-> <<>>, active_workspace |-> EmptyDict,
     active_window |-> EmptyDict]

\* the state when __init__ is entered; the three fields are created empty
\* by lines 43-45 and read by nobody before that
Init ==
    /\ pathExists \in BOOLEAN
    /\ mainPc = "init"
    /\ qi = 1
    /\ mdata = NoFrame
    /\ mainExc = "none"
    /\ lpc = "idle"
    /\ ldata = NoFrame
    /\ connected = FALSE
    /\ inbound = <<>>
    /\ peerClosed = FALSE
    /\ sent = <<>>
    /\ answered = 0
    /\ evSent = 0
    /\ workspaces = <<>>
    /\ active_workspace = EmptyDict
    /\ active_window = EmptyDict
    /\ notified = <<>>
    /\ latest = EmptyCache
    /\ applied = <<>>

-----------------------------------------------------------------------------
(* The two handlers, as functions from the cache and a frame to the new    *)
(* cache and the exception that leaves the handler ("none" when it         *)
(* returns).  json.JSONDecodeError is caught inside both handlers; every   *)
(* other exception leaves them.                                            *)

Result(c, exc) == [cache |-> c, exc |-> exc]

\* HandleResponse looking for the key "workspace" where the reply has
\* "workspaces": the list of a get_workspaces reply is never stored
HandleResponseKeyTypo(c, f) ==
    IF f.enc \in {"eof", "badjson"}
    THEN Result(c, "none")
    ELSE IF f.enc = "number"
    THEN Result(c, "TypeError")
    ELSE LET c1 == IF "workspace" \in f.keys
                   THEN [c EXCEPT !.workspaces = f.workspaces] ELSE c
             c2 == IF "active_workspace" \in f.keys
                   THEN [c1 EXCEPT !.active_workspace = f.active_workspace]
                   ELSE c1
             c3 == IF "active_window" \in f.keys
                   THEN [c2 EXCEPT !.active_window = f.active_window]
                   ELSE c2
         IN  Result(c3, "none")

\* HandleResponse storing the active window in _active_workspace
HandleResponseWrongField(c, f) ==
    IF f.enc \in {"eof", "badjson"}
    THEN Result(c, "none")
    ELSE IF f.enc = "number"
    THEN Result(c, "TypeError")
    ELSE LET c1 == IF "workspaces" \in f.keys
                   THEN [c EXCEPT !.workspaces = f.workspaces] ELSE c
             c2 == IF "active_workspace" \in f.keys
                   THEN [c1 EXCEPT !.active_workspace = f.active_workspace]
                   ELSE c1
             c3 == IF "active_window" \in f.keys
                   THEN [c2 EXCEPT !.active_workspace = f.active_window]
                   ELSE c2
         IN  Result(c3, "none")

\* HandleResponse with elif for its second and third test: only the first
\* key found is stored
HandleResponseElif(c, f) ==
    IF f.enc \in {"eof", "badjson"}
    THEN Result(c, "none")
    ELSE IF f.enc = "number"
    THEN Result(c, "TypeError")
    ELSE IF "workspaces" \in f.keys
    THEN Result([c EXCEPT !.workspaces = f.workspaces], "none")
    ELSE IF "active_workspace" \in f.keys
    THEN Result([c EXCEPT !.active_workspace = f.active_workspace], "none")
    ELSE IF "active_window" \in f.keys
    THEN Result([c EXCEPT !.active_window = f.active_window], "none")
    ELSE Result(c, "none")

\* __handle_response(response): response is text, already decoded from
\* UTF-8 by __send_request; "" (from b"") is not JSON.
HandleResponse(c, f) ==
    IF f.enc \in {"eof", "badjson"}
    THEN Result(c, "none")
    ELSE IF f.enc = "number"
    THEN Result(c, "TypeError")
    ELSE LET c1 == IF "workspaces" \in f.keys
                   THEN [c EXCEPT !.workspaces = f.workspaces] ELSE c
             c2 == IF "active_workspace" \in f.keys
                   THEN [c1 EXCEPT !.active_workspace = f.active_workspace]
                   ELSE c1
             c3 == IF "active_window" \in f.keys
                   THEN [c2 EXCEPT !.active_window = f.active_window]
                   ELSE c2
         IN  Result(c3, "none")

\* a sequence in ascending order
SortedById(q) ==
    IF Len(q) = 2 /\ q[1] > q[2] THEN <<q[2], q[1]>> ELSE q

\* HandleEvent storing the list of a workspaces_changed event sorted by id
HandleEventSorted(c, f) ==
    IF f.enc = "badutf8"
    THEN Result(c, "UnicodeDecodeError")
    ELSE IF f.enc = "badjson"
    THEN Result(c, "none")
    ELSE IF f.enc = "number"
    THEN Result(c, "TypeError")
    ELSE IF "event" \notin f.keys
    THEN Result(c, "none")
    ELSE IF f.event = "workspaces_changed"
    THEN IF "workspaces" \in f.keys
         THEN Result([c EXCEPT !.workspaces = SortedById(f.workspaces)], "none")
         ELSE Result(c, "KeyError")
    ELSE IF f.event = "workspace_activated"
    THEN IF "workspace" \in f.keys
         THEN Result([c EXCEPT !.active_workspace = f.workspace], "none")
         ELSE Result(c, "KeyError")
    ELSE Result(c, "none")

\* HandleEvent clearing the active window when a workspace is activated
HandleEventClearsWindow(c, f) ==
    IF f.enc = "badutf8"
    THEN Result(c, "UnicodeDecodeError")
    ELSE IF f.enc = "badjson"
    THEN Result(c, "none")
    ELSE IF f.enc = "number"
    THEN Result(c, "TypeError")
    ELSE IF "event" \notin f.keys
    THEN Result(c, "none")
    ELSE IF f.event = "workspaces_changed"
    THEN IF "workspaces" \in f.keys
         THEN Result([c EXCEPT !.workspaces = f.workspaces], "none")
         ELSE Result(c, "KeyError")
    ELSE IF f.event = "workspace_activated"
    THEN IF "workspace" \in f.keys
         THEN Result([c EXCEPT !.active_workspace = f.workspace,
                               !.active_window = EmptyDict], "none")
         ELSE Result(c, "KeyError")
    ELSE Result(c, "none")

\* HandleEvent looking the kind up in a table of handlers: a kind without
\* an entry raises KeyError
HandleEventUnknownRaises(c, f) ==
    IF f.enc = "badutf8"
    THEN Result(c, "UnicodeDecodeError")
    ELSE IF f.enc = "badjson"
    THEN Result(c, "none")
    ELSE IF f.enc = "number"
    THEN Result(c, "TypeError")
    ELSE IF "event" \notin f.keys
    THEN Result(c, "none")
    ELSE IF f.event = "workspaces_changed"
    THEN IF "workspaces" \in f.keys
         THEN Result([c EXCEPT !.workspaces = f.workspaces], "none")
         ELSE Result(c, "KeyError")
    ELSE IF f.event = "workspace_activated"
    THEN IF "workspace" \in f.keys
         THEN Result([c EXCEPT !.active_workspace = f.workspace], "none")
         ELSE Result(c, "KeyError")
    ELSE Result(c, "KeyError")

\* __handle_event(data): data is the bytes the listener read, never b"".
HandleEvent(c, f) ==
    IF f.enc = "badutf8"
    THEN Result(c, "UnicodeDecodeError")
    ELSE IF f.enc = "badjson"
    THEN Result(c, "none")
    ELSE IF f.enc = "number"
    THEN Result(c, "TypeError")
    ELSE IF "event" \notin f.keys
    THEN Result(c, "none")
    ELSE IF f.event = "workspaces_changed"
    THEN IF "workspaces" \in f.keys
         THEN Result([c EXCEPT !.workspaces = f.workspaces], "none")
         ELSE Result(c, "KeyError")
    ELSE IF f.event = "workspace_activated"
    THEN IF "workspace" \in f.keys
         THEN Result([c EXCEPT !.active_workspace = f.workspace], "none")
         ELSE Result(c, "KeyError")
    ELSE Result(c, "none")

SetCache(c) ==
    /\ workspaces' = c.workspaces
    /\ active_workspace' = c.active_workspace
    /\ active_window' = c.active_window

\* socket.recv(4096) blocks until a frame is there or the peer has closed
CanRecv == inbound # <<>> \/ peerClosed

RecvFrame == IF inbound # <<>> THEN Head(inbound) ELSE EofFrame

RecvRest == IF inbound # <<>> THEN Tail(inbound) ELSE inbound

Entry(by, req, f, exc) == [by |-> by, req |-> req, frame |-> f, exc |-> exc]

-----------------------------------------------------------------------------
(* The constructing thread: NiriService.__init__                           *)

\* CheckPath without the test of lines 40-41
CheckPathSkipped ==
    /\ mainPc = "init"
    /\ mainPc' = "connect"
    /\ mainExc' = mainExc
    /\ UNCHANGED <<pathExists, qi, mdata, lpc, ldata, connected, sent, applied,
                   cacheVars, peerVars, notified>>

\* lines 40-41: the path check
CheckPath ==
    /\ mainPc = "init"
    /\ IF pathExists
       THEN mainPc' = "connect" /\ mainExc' = mainExc
       ELSE mainPc' = "raised" /\ mainExc' = "NiriIPCNotFoundError"
    /\ UNCHANGED <<pathExists, qi, mdata, lpc, ldata, connected, sent, applied,
                   cacheVars, peerVars, notified>>

\* line 47: __connect; connect() raises when the peer does not accept
Connect ==
    /\ mainPc = "connect"
    /\ \E ok \in BOOLEAN :
          IF ok
          THEN connected' = TRUE /\ mainPc' = "listen" /\ mainExc' = mainExc
          ELSE connected' = FALSE /\ mainPc' = "raised"
               /\ mainExc' = "ConnectionRefusedError"
    /\ UNCHANGED <<pathExists, qi, mdata, lpc, ldata, sent, applied, cacheVars,
                   peerVars, notified>>

\* line 48: __listen_socket under Utils.run_in_thread starts the thread
StartListener ==
    /\ mainPc = "listen"
    /\ mainPc' = "send"
    /\ lpc' = "recv"
    /\ UNCHANGED <<pathExists, qi, mdata, mainExc, ldata, connected, sent,
                   applied, cacheVars, peerVars, notified>>

\* SendRequest writing every remaining request before reading any reply
SendRequestBoth ==
    /\ mainPc = "send"
    /\ sent' = sent \o SubSeq(Requests, qi, Len(Requests))
    /\ mainPc' = "recv"
    /\ mainExc' = mainExc
    /\ UNCHANGED <<pathExists, qi, mdata, lpc, ldata, connected, applied,
                   cacheVars, peerVars, notified>>

\* line 82: sendall; writing to a connection the peer has closed either
\* raises BrokenPipeError or (peer only stopped writing) goes through
SendRequest ==
    /\ mainPc = "send"
    /\ \/ /\ sent' = Append(sent, Requests[qi])
          /\ mainPc' = "recv"
          /\ mainExc' = mainExc
       \/ /\ peerClosed
          /\ sent' = sent
          /\ mainPc' = "raised"
          /\ mainExc' = "BrokenPipeError"
    /\ UNCHANGED <<pathExists, qi, mdata, lpc, ldata, connected, applied,
                   cacheVars, peerVars, notified>>

\* line 83: recv(4096).decode("utf-8")
QueryRecv ==
    /\ mainPc = "recv"
    /\ CanRecv
    /\ inbound' = RecvRest
    /\ IF RecvFrame.enc = "badutf8"
       THEN /\ mainPc' = "raised"
            /\ mainExc' = "UnicodeDecodeError"
            /\ mdata' = NoFrame
            /\ applied' = Append(applied, Entry("query", Requests[qi],
                                               RecvFrame, "UnicodeDecodeError"))
       ELSE /\ mainPc' = "handle"
            /\ mainExc' = mainExc
            /\ mdata' = RecvFrame
            /\ applied' = applied
    /\ UNCHANGED <<pathExists, qi, lpc, ldata, connected, peerClosed, sent,
                   answered, evSent, latest, cacheVars, notified>>

\* line 84: __handle_response, then back in __init__ (lines 49-50)
QueryHandle ==
    /\ mainPc = "handle"
    /\ LET r == HandleResponse(Cache, mdata) IN
          /\ SetCache(r.cache)
          /\ applied' = Append(applied, Entry("query", Requests[qi], mdata,
                                              r.exc))
          /\ mdata' = NoFrame
          /\ IF r.exc # "none"
             THEN mainPc' = "raised" /\ mainExc' = r.exc /\ qi' = qi
             ELSE IF qi < Len(Requests)
             THEN mainPc' = "send" /\ mainExc' = mainExc /\ qi' = qi + 1
             ELSE mainPc' = "done" /\ mainExc' = mainExc /\ qi' = qi
    /\ UNCHANGED <<pathExists, lpc, ldata, connected, sent, peerVars, notified>>

-----------------------------------------------------------------------------
(* The listener thread: NiriService.__listen_socket                        *)

\* ListenRecv without the else branch of lines 64-65: b"" is skipped and
\* the loop calls recv again
ListenRecvNoBreak ==
    /\ lpc = "recv"
    /\ CanRecv
    /\ inbound' = RecvRest
    /\ IF RecvFrame.enc = "eof"
       THEN /\ lpc' = "recv"
            /\ ldata' = NoFrame
            /\ applied' = applied
       ELSE /\ lpc' = "handle"
            /\ ldata' = RecvFrame
            /\ applied' = applied
    /\ UNCHANGED <<pathExists, mainVars, connected, peerClosed, sent,
                   answered, evSent, latest, cacheVars, notified>>

\* lines 61-65: recv; b"" ends the loop
ListenRecv ==
    /\ lpc = "recv"
    /\ CanRecv
    /\ inbound' = RecvRest
    /\ IF RecvFrame.enc = "eof"
       THEN /\ lpc' = "stopped"
            /\ ldata' = NoFrame
            /\ applied' = Append(applied, Entry("listener", "none",
                                               RecvFrame, "none"))
       ELSE /\ lpc' = "handle"
            /\ ldata' = RecvFrame
            /\ applied' = applied
    /\ UNCHANGED <<pathExists, mainVars, connected, peerClosed, sent, answered,
                   evSent, latest, cacheVars, notified>>

\* lines 63, 66-68: __handle_event; any exception ends the loop
ListenHandle ==
    /\ lpc = "handle"
    /\ LET r == HandleEvent(Cache, ldata) IN
          /\ SetCache(r.cache)
          /\ applied' = Append(applied, Entry("listener", "none", ldata,
                                              r.exc))
          /\ ldata' = NoFrame
          /\ lpc' = IF r.exc = "none" THEN "recv" ELSE "stopped"
    /\ UNCHANGED <<pathExists, mainVars, connected, sent, peerVars, notified>>

-----------------------------------------------------------------------------
(* The peer: the compositor at the other end of the socket                 *)

\* the field a frame carries a value for, going by what the peer means
Carries(f, field) ==
    /\ f.enc = "obj"
    /\ IF "event" \in f.keys
       THEN \/ field = "workspaces" /\ f.event = "workspaces_changed"
               /\ "workspaces" \in f.keys
            \/ field = "active_workspace" /\ f.event = "workspace_activated"
               /\ "workspace" \in f.keys
       ELSE field \in f.keys

Carried(f, field) ==
    IF "event" \in f.keys /\ field = "active_workspace"
    THEN f.workspace ELSE f[field]

Emit(f) ==
    /\ inbound' = Append(inbound, f)
    /\ latest' = [fld \in Fields |->
                     IF Carries(f, fld) THEN Carried(f, fld) ELSE latest[fld]]

PeerReply ==
    /\ connected /\ ~peerClosed
    /\ answered < Len(sent)
    /\ answered' = answered + 1
    /\ IF sent[answered + 1] = "get_workspaces"
       THEN \E ws \in ReplyWsValues : Emit(ReplyWorkspaces(ws))
       ELSE \E win \in ReplyWinValues : Emit(ReplyActiveWindow(win))
    /\ UNCHANGED <<pathExists, mainVars, lpc, ldata, connected, peerClosed,
                   sent, evSent, applied, cacheVars, notified>>

PeerEvent ==
    /\ connected /\ ~peerClosed
    /\ evSent < MaxEvents
    /\ evSent' = evSent + 1
    /\ \E f \in PeerEvents : Emit(f)
    /\ UNCHANGED <<pathExists, mainVars, lpc, ldata, connected, peerClosed,
                   sent, answered, applied, cacheVars, notified>>

PeerClose ==
    /\ connected /\ ~peerClosed
    /\ peerClosed' = TRUE
    /\ UNCHANGED <<pathExists, mainVars, lpc, ldata, connected, inbound, sent,
                   answered, evSent, latest, applied, cacheVars, notified>>

-----------------------------------------------------------------------------
Next ==
    \/ CheckPath
    \/ Connect
    \/ StartListener
    \/ SendRequest
    \/ QueryRecv
    \/ QueryHandle
    \/ ListenRecv
    \/ ListenHandle
    \/ PeerReply
    \/ PeerEvent
    \/ PeerClose

Spec == Init /\ [][Next]_vars

\* The same client against a peer that sends any of WideFrames, whatever
\* was asked: both handlers meet every set of reply keys.
PeerSendAny ==
    /\ connected /\ ~peerClosed
    /\ evSent < MaxFrames
    /\ evSent' = evSent + 1
    /\ \E f \in WideFrames : Emit(f)
    /\ UNCHANGED <<pathExists, mainVars, lpc, ldata, connected, peerClosed,
                   sent, answered, applied, cacheVars, notified>>

WideNext ==
    \/ CheckPath
    \/ Connect
    \/ StartListener
    \/ SendRequest
    \/ QueryRecv
    \/ QueryHandle
    \/ ListenRecv
    \/ ListenHandle
    \/ PeerSendAny

WideSpec == Init /\ [][WideNext]_vars

\* both threads are scheduled and the peer answers what it can answer
FairSpec ==
    /\ Spec
    /\ WF_vars(CheckPath) /\ WF_vars(Connect) /\ WF_vars(StartListener)
    /\ WF_vars(SendRequest) /\ WF_vars(QueryRecv) /\ WF_vars(QueryHandle)
    /\ WF_vars(ListenRecv) /\ WF_vars(ListenHandle)
    /\ WF_vars(PeerReply)

TypeOK ==
    /\ pathExists \in BOOLEAN
    /\ mainPc \in {"init", "connect", "listen", "send", "recv", "handle",
                   "done", "raised"}
    /\ qi \in 1..Len(Requests)
    /\ lpc \in {"idle", "recv", "handle", "stopped"}
    /\ answered \in 0..Len(sent)
    /\ evSent \in 0..MaxEvents

-----------------------------------------------------------------------------
(* Properties                                                              *)

Last(log) == log[Len(log)]

\* the peer has only answered requests: no unsolicited frame, no close
OnlyReplies == evSent = 0 /\ ~peerClosed

\* the entries of the log made by a query, resp. by the listener
QueryEntries == {i \in 1..Len(applied) : applied[i].by = "query"}

ListenerEntries == {i \in 1..Len(applied) : applied[i].by = "listener"}

IsWorkspaceActivated(f) ==
    /\ f.enc = "obj"
    /\ "event" \in f.keys
    /\ f.event = "workspace_activated"
    /\ "workspace" \in f.keys

IsWorkspacesChanged(f) ==
    /\ f.enc = "obj"
    /\ "event" \in f.keys
    /\ f.event = "workspaces_changed"
    /\ "workspaces" \in f.keys

\* the listener finishes handling the frame it holds
ListenerApplies == lpc = "handle" /\ lpc' # "handle"

\* C1: bootstrap.  When the peer answers get_workspaces with [{id:1},{id:2}]
\* and get_active_window with {} and sends nothing else, then whenever the
\* constructor has returned the cache is workspaces = [{id:1},{id:2}],
\* active_workspace = {}, active_window = {}.
C1_Bootstrap ==
    ( /\ mainPc = "done"
      /\ OnlyReplies
      /\ latest.workspaces = <<1, 2>>
      /\ latest.active_window = EmptyDict )
    => /\ workspaces = <<1, 2>>
       /\ active_workspace = EmptyDict
       /\ active_window = EmptyDict

C1_Witness ==
    /\ mainPc = "done"
    /\ OnlyReplies
    /\ latest.workspaces = <<1, 2>>
    /\ latest.active_window = EmptyDict
    /\ lpc = "recv"
    /\ Len(applied) = 2

\* C2: the frame a query handles as its reply is the reply to its own
\* request, never an event and never the reply to another request.
C2_ReplyIsOwn ==
    \A i \in QueryEntries :
        applied[i].frame.enc # "eof" => applied[i].frame.src = applied[i].req

\* C3: against a peer that answers each request with one reply and sends
\* nothing else, construction eventually returns to its caller.
C3_ConstructionTerminates ==
    [](OnlyReplies) => <>(mainPc \in {"done", "raised"})

\* C4: a query whose receive yields end-of-stream or an undecodable frame
\* ends in an error raised to its caller (the code has no RequestError
\* class: any exception counts), never in a normal return.
C4_RequestErrorOnFailure ==
    \A i \in QueryEntries :
        applied[i].frame.enc \in {"eof", "badjson", "badutf8"}
            => applied[i].exc # "none"

\* C5: a malformed frame read by the listener does not stop the listener:
\* its handling raises nothing out of the handler and the loop goes on.
C5_MalformedKeepsListening ==
    \A i \in ListenerEntries :
        applied[i].frame.enc \in {"badjson", "badutf8"}
            => applied[i].exc = "none"

\* what a handled frame wrote, going by the mapping tables: a frame handled
\* as a reply writes the fields whose keys it has, a frame handled as an
\* event writes the field of its kind
EntryWrites(e, fld) ==
    /\ e.exc = "none"
    /\ e.frame.enc = "obj"
    /\ IF e.by = "query"
       THEN fld \in e.frame.keys
       ELSE \/ fld = "workspaces" /\ IsWorkspacesChanged(e.frame)
            \/ fld = "active_workspace" /\ IsWorkspaceActivated(e.frame)

EntryValue(e, fld) ==
    IF e.by = "listener" /\ fld = "active_workspace"
    THEN e.frame.workspace ELSE e.frame[fld]

RECURSIVE LastWritten(_, _)
LastWritten(fld, log) ==
    IF log = <<>>
    THEN EmptyCache[fld]
    ELSE IF EntryWrites(Last(log), fld)
    THEN EntryValue(Last(log), fld)
    ELSE LastWritten(fld, SubSeq(log, 1, Len(log) - 1))

WritersOf(fld) == {i \in 1..Len(applied) : EntryWrites(applied[i], fld)}

\* C6: last write wins per field.  After any sequence of handled replies
\* and events each field holds the value of the last message that wrote
\* it, or its initial empty value when none did.
C6_LastWriteWins ==
    \A fld \in Fields : Cache[fld] = LastWritten(fld, applied)

C6_Witness ==
    /\ Cardinality(WritersOf("workspaces")) >= 2
    /\ \E i, j \in WritersOf("workspaces") :
          /\ i < j
          /\ EntryValue(applied[i], "workspaces")
                # EntryValue(applied[j], "workspaces")
    /\ WritersOf("active_workspace") # {}
    /\ WritersOf("active_window") # {}
    /\ active_window # EmptyDict

\* C7: once every frame the peer sent has been read and handled, each
\* field holds the last value the peer sent for it.
C7_CacheFresh ==
    (inbound = <<>> /\ mdata = NoFrame /\ ldata = NoFrame)
    => \A fld \in Fields : Cache[fld] = latest[fld]

\* C8: handling a workspace_activated event sets active_workspace to the
\* event's workspace and leaves workspaces and active_window as they were.
C8_WorkspaceActivatedOnly ==
    [][ (ListenerApplies /\ IsWorkspaceActivated(ldata))
        => /\ active_workspace' = ldata.workspace
           /\ workspaces' = workspaces
           /\ active_window' = active_window ]_vars

C8_Witness ==
    /\ applied # <<>>
    /\ Last(applied).by = "listener"
    /\ IsWorkspaceActivated(Last(applied).frame)
    /\ active_workspace = Last(applied).frame.workspace
    /\ active_workspace # EmptyDict
    /\ workspaces # <<>>
    /\ active_window # EmptyDict

\* C9: handling a workspaces_changed event makes workspaces exactly the
\* event's sequence: same elements, same order, same length.
C9_WorkspacesChangedExact ==
    [][ (ListenerApplies /\ IsWorkspacesChanged(ldata))
        => workspaces' = ldata.workspaces ]_vars

C9_Witness ==
    /\ Len(applied) >= 2
    /\ Last(applied).by = "listener"
    /\ IsWorkspacesChanged(Last(applied).frame)
    /\ WritersOf("workspaces") \ {Len(applied)} # {}
    /\ workspaces = <<2, 1>>

\* C10: when the socket path does not exist, construction fails with
\* NiriIPCNotFoundError and nothing else has happened: no connection, no
\* listener, no request.
C10_NoPathFailsFirst ==
    ~pathExists
    => /\ mainPc \in {"init", "raised"}
       /\ mainPc = "raised" => mainExc = "NiriIPCNotFoundError"
       /\ ~connected
       /\ lpc = "idle"
       /\ sent = <<>>

C10_Witness ==
    /\ ~pathExists
    /\ mainPc = "raised"
    /\ mainExc = "NiriIPCNotFoundError"

\* the fields a handled frame wrote, in the order the handler assigns them
FieldOrder == <<"workspaces", "active_workspace", "active_window">>

RECURSIVE WriteOrder(_)
WriteOrder(log) ==
    IF log = <<>>
    THEN <<>>
    ELSE WriteOrder(SubSeq(log, 1, Len(log) - 1))
         \o SelectSeq(FieldOrder, LAMBDA fld : EntryWrites(Last(log), fld))

\* C11: every update of a cached field is notified to the field's
\* subscribers, in the order of the updates: once a handler has returned,
\* the notifications emitted are those of the writes made so far.
C11_UpdatesNotified == notified = WriteOrder(applied)

\* C12: the listener and a query that has sent its request are never both
\* waiting in recv on the connection.
C12_ExclusiveRecv == ~(lpc = "recv" /\ mainPc = "recv")

\* C13: the cached fields are written by the listener only, never by the
\* thread that constructs the service and runs the queries.
C13_SingleWriter ==
    \A fld \in Fields : \A i \in WritersOf(fld) : applied[i].by = "listener"

\* the number of receives of queries that have returned
RecvReturned ==
    Cardinality(QueryEntries) + IF mainPc = "handle" THEN 1 ELSE 0

\* C14: at most one query is in flight.  A request is sent only when the
\* receive of every earlier request has returned; get_active_window is
\* sent only after the get_workspaces query has finished.
C14_OneQueryInFlight ==
    /\ Len(sent) <= RecvReturned + 1
    /\ Len(sent) = 2
       => /\ sent = Requests
          /\ \E i \in QueryEntries :
                applied[i].req = "get_workspaces" /\ applied[i].exc = "none"

C14_Witness ==
    /\ mainPc = "recv"
    /\ sent = Requests
    /\ Cardinality(QueryEntries) = 1
    /\ inbound = <<>>

\* a reply: an object with reply keys and no event key
IsReply(f) ==
    /\ f.enc = "obj"
    /\ "event" \notin f.keys
    /\ f.keys \cap Fields # {}

\* C15: a reply read by the listener is applied: the fields whose keys it
\* carries take its values.
C15_LoopAppliesReplies ==
    [][ (ListenerApplies /\ IsReply(ldata))
        => \A fld \in ldata.keys \cap Fields : Cache'[fld] = ldata[fld] ]_vars

\* C16: a well-formed JSON frame that is a bad event (its payload field is
\* missing, or it is not an object) does not stop the listener: handling it
\* raises nothing out of the handler and the loop goes on.
C16_BadEventKeepsListening ==
    \A i \in ListenerEntries :
        applied[i].frame.enc \in {"obj", "number"} => applied[i].exc = "none"

\* C17: when the peer closes the connection the listener eventually stops;
\* once stopped it stays stopped, reads no further frame and handles none,
\* so it writes the cache no more, and the cache keeps its values.
C17_ListenerStopsOnClose ==
    /\ peerClosed ~> (lpc = "stopped")
    /\ [][ lpc = "stopped"
           => /\ lpc' = "stopped"
              /\ ldata' = ldata
              /\ ListenerEntries' = ListenerEntries ]_vars

C17_Witness ==
    /\ peerClosed
    /\ lpc = "stopped"
    /\ ListenerEntries # {}
    /\ \E i \in ListenerEntries :
          applied[i].frame.enc = "eof"
          /\ \A j \in ListenerEntries : j <= i
    /\ workspaces # <<>>

\* the state of the session: Failed when connect raised, Closed when the
\* listener has stopped, Listening from the connect on
SessionState ==
    IF lpc = "stopped" THEN "Closed"
    ELSE IF mainExc = "ConnectionRefusedError" THEN "Failed"
    ELSE IF connected THEN "Listening"
    ELSE IF mainPc = "connect" THEN "Connecting"
    ELSE "Disconnected"

SessionSteps ==
    { <<"Disconnected", "Connecting">>, <<"Connecting", "Listening">>,
      <<"Connecting", "Failed">>, <<"Listening", "Closed">> }

\* C18: the session takes only the steps of SessionSteps, and in Failed or
\* Closed no request is sent and the listener is not reading.
C18_Lifecycle ==
    [][ /\ SessionState' # SessionState
           => <<SessionState, SessionState'>> \in SessionSteps
        /\ SessionState \in {"Failed", "Closed"}
           => sent' = sent /\ lpc' \notin {"recv", "handle"} ]_vars

\* an object neither mapping table has a row for
NoReplyKeys(f) == f.keys \cap Fields = {}

IsUnknown(f) ==
    /\ f.enc = "obj"
    /\ \/ "event" \notin f.keys /\ NoReplyKeys(f)
       \/ "event" \in f.keys
          /\ f.event \notin {"workspaces_changed", "workspace_activated"}

QueryApplies == mainPc = "handle" /\ mainPc' # "handle"

\* a reader has handled a frame without a change of the cache, without an
\* exception, and goes on
Ignored ==
    /\ Cache' = Cache
    /\ Last(applied').exc = "none"
    /\ ListenerApplies => lpc' = "recv"
    /\ QueryApplies => mainPc' \in {"send", "done"}

\* C19 as stated: an object without reply keys and without event key, or
\* of an event kind other than workspaces_changed and workspace_activated,
\* is ignored by the reader that consumed it.
C19_UnknownIgnored ==
    [][ /\ (ListenerApplies /\ IsUnknown(ldata)) => Ignored
        /\ (QueryApplies /\ IsUnknown(mdata)) => Ignored ]_vars

\* C19 as amended: such an object is ignored by the listener, and by a
\* query when it carries none of the reply keys.
C19_UnknownIgnoredAmended ==
    [][ /\ (ListenerApplies /\ IsUnknown(ldata)) => Ignored
        /\ (QueryApplies /\ IsUnknown(mdata) /\ NoReplyKeys(mdata))
           => Ignored ]_vars

C19_Witness ==
    /\ Len(applied) = 2
    /\ applied[1].by = "query"
    /\ applied[1].frame = ReplyWith(Fields, 10)
    /\ applied[2].by = "listener"
    /\ applied[2].frame = EventWindowFocused(7)
    /\ applied[2].exc = "none"
    /\ lpc = "recv"
    /\ Cache = [workspaces |-> <<10, 11>>, active_workspace |-> 12,
                active_window |-> 13]

\* C20: the keys of a reply are applied independently: each field whose
\* key is present takes the reply's value, each other field keeps its own.
C20_ReplyKeysIndependent ==
    [][ (QueryApplies /\ mdata.enc = "obj")
        => \A fld \in Fields :
              Cache'[fld] = IF fld \in mdata.keys
                            THEN mdata[fld] ELSE Cache[fld] ]_vars

C20_Witness ==
    /\ Len(applied) = 2
    /\ applied[1].by = "query"
    /\ applied[1].frame = ReplyWith(Fields, 10)
    /\ applied[2].by = "query"
    /\ applied[2].frame = ReplyWith({"workspaces", "active_window"}, 20)
    /\ Cache = [workspaces |-> <<20, 21>>, active_workspace |-> 12,
                active_window |-> 23]

====
